---- MODULE Spec2Model ----
(***************************************************************************)
(* Round-robin CPU scheduling simulator:                                   *)
(*   Process             (src/main.py)                                     *)
(*   RoundRobinScheduler (src/classes/RoundRobinScheduler.py)              *)
(* One run of RoundRobinScheduler.run is modelled as a state machine with  *)
(* one step per iteration of its main loop.                                *)
(***************************************************************************)
EXTENDS Integers, Sequences, FiniteSets, TLC

\* ------------------------------------------------------------------ bounds
MaxProcs == 3      \* number of processes handed to the scheduler
MaxArrival == 3    \* largest arrival_time
MaxBurst == 3      \* largest burst_time
MaxQuantum == 2    \* largest time_quantum
MaxWork == 5       \* largest sum of the burst times
RawProcs == 2      \* number of processes on unvalidated input
RawMax == 1        \* largest magnitude of a time on unvalidated input
MaxChart == 5      \* longest Gantt chart followed on unvalidated input
ClassicArrival == 2  \* largest arrival_time in the three-process family
ClassicBurst == 5    \* largest burst_time in the three-process family

\* ------------------------------------------------------------------ state
VARIABLES
    proc,                \* the Process objects, by reference 1..N
    processes,           \* self.processes: list of references
    time_quantum,        \* self.time_quantum
    gantt_chart,         \* self.gantt_chart: list of (label, start, end)
    current_time,        \* self.current_time
    ready_queue,         \* run's local ready_queue: list of references
    remaining_processes, \* run's local remaining_processes
    process_index,       \* run's local process_index (0-based cursor)
    pc,                  \* position in run: "start", "loop", "done"
    writes               \* per process and metric, the number of assignments

vars == <<proc, processes, time_quantum, gantt_chart, current_time,
          ready_queue, remaining_processes, process_index, pc, writes>>

\* ------------------------------------------------------------------ helpers
Min(a, b) == IF a <= b THEN a ELSE b

RECURSIVE SeqSum(_)
SeqSum(s) == IF s = <<>> THEN 0 ELSE Head(s) + SeqSum(Tail(s))

\* Process.__init__(pid, arrival_time, burst_time)
Process(pid, arrival_time, burst_time) ==
    [pid |-> pid,
     arrival_time |-> arrival_time,
     burst_time |-> burst_time,
     remaining_time |-> burst_time,
     waiting_time |-> 0,
     turnaround_time |-> 0,
     response_time |-> -1,
     completion_time |-> 0]

\* validate_process_inputs: the i-th row (0-based) becomes Process(i, a, b)
MakeProcesses(rows) ==
    [i \in 1..Len(rows) |-> Process(i - 1, rows[i][1], rows[i][2])]

NoWrites(n) ==
    [i \in 1..n |-> [response_time |-> 0, completion_time |-> 0,
                     turnaround_time |-> 0, waiting_time |-> 0]]

\* f"P{current_process.pid}" and the literal "Idle"
IdleLabel == "Idle"
ProcessLabel(pid) == "P" \o ToString(pid)

\* SortInsert with each element put in front of its equals: ties reversed
SortInsertBefore(sorted, x, heap) ==
    SelectSeq(sorted, LAMBDA y: heap[y].arrival_time < heap[x].arrival_time)
    \o <<x>>
    \o SelectSeq(sorted, LAMBDA y: heap[y].arrival_time >= heap[x].arrival_time)

\* list.sort(key=lambda x: x.arrival_time): a stable sort, built by inserting
\* each element behind every element whose key is not larger
SortInsert(sorted, x, heap) ==
    SelectSeq(sorted, LAMBDA y: heap[y].arrival_time <= heap[x].arrival_time)
    \o <<x>>
    \o SelectSeq(sorted, LAMBDA y: heap[y].arrival_time > heap[x].arrival_time)

RECURSIVE SortByArrival(_, _)
SortByArrival(s, heap) ==
    IF s = <<>> THEN <<>>
    ELSE SortInsert(SortByArrival(SubSeq(s, 1, Len(s) - 1), heap), s[Len(s)], heap)

\* Arrived one tick early: a process arriving at now + 1 is let in
ArrivedEarly(arrival_time, now) == arrival_time <= now + 1

\* Arrived with < for <=: a process arriving exactly now is left out
ArrivedStrict(arrival_time, now) == arrival_time < now

\* the admission test of both inner while loops
Arrived(arrival_time, now) == arrival_time <= now

\* the inner while loop: the cursor after admitting every process at the
\* cursor whose arrival_time <= now
RECURSIVE AdmitUpTo(_, _)
AdmitUpTo(idx, now) ==
    IF idx < Len(processes) /\ Arrived(proc[processes[idx + 1]].arrival_time, now)
    THEN AdmitUpTo(idx + 1, now)
    ELSE idx

\* NextArrival as a one-tick advance of the clock
NextArrivalTick(idx) == current_time + 1

\* the end of the idle entry: self.processes[process_index].arrival_time
NextArrival(idx) == proc[processes[idx + 1]].arrival_time

\* Slice with the duration stored where the end belongs
SliceDuration(label, start, run_time) == <<label, start, run_time>>

\* a Gantt chart entry (label, current_time, current_time + run_time)
Slice(label, start, run_time) == <<label, start, start + run_time>>

\* the references appended to ready_queue while the cursor moves from..to
Admitted(from, to) == SubSeq(processes, from + 1, to)

\* LoopCondition with >= for >: one iteration too many
LoopConditionInclusive(n) == n >= 0

\* while remaining_processes > 0
LoopCondition(n) == n > 0

\* ResponseUnset without the sentinel test: every dispatch assigns
ResponseAlways(p) == TRUE

\* if current_process.response_time == -1
ResponseUnset(p) == p.response_time = -1

\* RunTime without the min: a full quantum whatever remains
RunTimeNoMin(quantum, remaining_time) == quantum

\* run_time = min(self.time_quantum, current_process.remaining_time)
RunTime(quantum, remaining_time) == Min(quantum, remaining_time)

\* QueuePop with pop() for pop(0): the tail is taken, not the head
QueuePopLast(queue) == <<queue[Len(queue)], SubSeq(queue, 1, Len(queue) - 1)>>

\* current_process = ready_queue.pop(0): the process taken and the queue left
QueuePop(queue) == <<Head(queue), Tail(queue)>>

\* Requeue without the re-append: the unfinished process is lost
RequeueDrop(queue, arrivals, cur) == queue \o arrivals

\* Requeue with the process re-appended before the arrivals are admitted
RequeueFirst(queue, arrivals, cur) == (queue \o <<cur>>) \o arrivals

\* the queue after the post-run admission and the re-queue of the process
Requeue(queue, arrivals, cur) == (queue \o arrivals) \o <<cur>>

\* Turnaround measured from time 0 instead of from the arrival
TurnaroundFromZero(completion_time, arrival_time) == completion_time

\* turnaround_time and waiting_time as assigned at completion
Turnaround(completion_time, arrival_time) == completion_time - arrival_time
Waiting(turnaround_time, burst_time) == turnaround_time - burst_time

\* ------------------------------------------------------------------ inputs
TotalBurst(rows) == SeqSum([i \in 1..Len(rows) |-> rows[i][2]])

ValidRows ==
    UNION {{rows \in [1..n -> (0..MaxArrival) \X (1..MaxBurst)] :
               TotalBurst(rows) <= MaxWork} : n \in 1..MaxProcs}

\* RoundRobinScheduler.__init__ on the processes built from the rows
Construct(rows, quantum) ==
    /\ proc = MakeProcesses(rows)
    /\ processes = [i \in 1..Len(rows) |-> i]
    /\ time_quantum = quantum
    /\ gantt_chart = <<>>
    /\ current_time = 0
    /\ ready_queue = <<>>
    /\ remaining_processes = 0
    /\ process_index = 0
    /\ pc = "start"
    /\ writes = NoWrites(Len(rows))

Init == \E rows \in ValidRows, quantum \in 1..MaxQuantum : Construct(rows, quantum)

\* ------------------------------------------------------------------ run
\* lines 11-16: sort and set up the locals
Begin ==
    /\ pc = "start"
    /\ processes' = SortByArrival(processes, proc)
    /\ ready_queue' = <<>>
    /\ remaining_processes' = Len(processes)
    /\ process_index' = 0
    /\ pc' = "loop"
    /\ UNCHANGED <<proc, time_quantum, gantt_chart, current_time, writes>>

\* lines 19-28: an iteration that finds the ready queue empty
Idle ==
    /\ pc = "loop"
    /\ LoopCondition(remaining_processes)
    /\ LET idx1 == AdmitUpTo(process_index, current_time)
           rq1 == ready_queue \o Admitted(process_index, idx1)
       IN /\ rq1 = <<>>
          /\ idx1 < Len(processes)   \* processes[process_index] exists
          /\ LET next == NextArrival(idx1)
             IN /\ gantt_chart' = Append(gantt_chart, <<IdleLabel, current_time, next>>)
                /\ current_time' = next
          /\ ready_queue' = rq1
          /\ process_index' = idx1
    /\ UNCHANGED <<proc, processes, time_quantum, remaining_processes, pc, writes>>

\* lines 19-23, 30-62: an iteration that runs the head of the ready queue
Dispatch ==
    /\ pc = "loop"
    /\ LoopCondition(remaining_processes)
    /\ LET idx1 == AdmitUpTo(process_index, current_time)
           rq1 == ready_queue \o Admitted(process_index, idx1)
       IN /\ rq1 # <<>>
          /\ LET cur == QueuePop(rq1)[1]
                 rest == QueuePop(rq1)[2]
                 p == proc[cur]
                 first == ResponseUnset(p)
                 response == IF first THEN current_time - p.arrival_time
                             ELSE p.response_time
                 run_time == RunTime(time_quantum, p.remaining_time)
                 now == current_time + run_time
                 remaining == p.remaining_time - run_time
                 idx2 == AdmitUpTo(idx1, now)
                 arrivals == Admitted(idx1, idx2)
                 turnaround == Turnaround(now, p.arrival_time)
                 waiting == Waiting(turnaround, p.burst_time)
             IN /\ gantt_chart' =
                      Append(gantt_chart, Slice(ProcessLabel(p.pid), current_time, run_time))
                /\ current_time' = now
                /\ process_index' = idx2
                /\ IF remaining > 0
                   THEN /\ ready_queue' = Requeue(rest, arrivals, cur)
                        /\ remaining_processes' = remaining_processes
                        /\ proc' = [proc EXCEPT ![cur].response_time = response,
                                                ![cur].remaining_time = remaining]
                        /\ writes' = [writes EXCEPT ![cur].response_time =
                                         IF first THEN @ + 1 ELSE @]
                   ELSE /\ ready_queue' = rest \o arrivals
                        /\ remaining_processes' = remaining_processes - 1
                        /\ proc' = [proc EXCEPT ![cur].response_time = response,
                                                ![cur].remaining_time = remaining,
                                                ![cur].completion_time = now,
                                                ![cur].turnaround_time = turnaround,
                                                ![cur].waiting_time = waiting]
                        /\ writes' = [writes EXCEPT ![cur].response_time =
                                         IF first THEN @ + 1 ELSE @,
                                                    ![cur].completion_time = @ + 1,
                                                    ![cur].turnaround_time = @ + 1,
                                                    ![cur].waiting_time = @ + 1]
    /\ UNCHANGED <<processes, time_quantum, pc>>

\* lines 19, 64: the loop condition fails and run returns self.gantt_chart
Return ==
    /\ pc = "loop"
    /\ ~LoopCondition(remaining_processes)
    /\ pc' = "done"
    /\ UNCHANGED <<proc, processes, time_quantum, gantt_chart, current_time,
                   ready_queue, remaining_processes, process_index, writes>>

Next == Begin \/ Idle \/ Dispatch \/ Return

Spec == Init /\ [][Next]_vars

\* the loop runs without suspension: every enabled step is eventually taken
FairSpec == Spec /\ WF_vars(Next)

\* ------------------------------------------------------- unvalidated input
\* the checks of the caller: generate_process_fields, validate_process_inputs
QuantumOk(q) == ~(q <= 0)
ArrivalOk(a) == ~(a < 0)
BurstOk(b) == ~(b <= 0)

RawRows ==
    UNION {[1..n -> ((-1)..RawMax) \X ((-1)..RawMax)] : n \in 0..RawProcs}

\* the scheduler constructed on any list and any quantum
InitRaw == \E rows \in RawRows, quantum \in (-1)..RawMax : Construct(rows, quantum)

\* the loop iterations, followed while the chart is shorter than MaxChart
BoundedIdle == Len(gantt_chart) < MaxChart /\ Idle
BoundedDispatch == Len(gantt_chart) < MaxChart /\ Dispatch

NextRaw == Begin \/ BoundedIdle \/ BoundedDispatch \/ Return

SpecRaw == InitRaw /\ [][NextRaw]_vars

\* ------------------------------------------------------------ the timeline
Label(e) == e[1]
Start(e) == e[2]
End(e) == e[3]
Duration(e) == End(e) - Start(e)
Refs == DOMAIN proc
IsIdle(e) == Label(e) = IdleLabel
IsOf(e, r) == Label(e) = ProcessLabel(proc[r].pid)
ChartIdx == 1..Len(gantt_chart)
IdxOf(r) == {i \in ChartIdx : IsOf(gantt_chart[i], r)}
IdleIdx == {i \in ChartIdx : IsIdle(gantt_chart[i])}
Durations(idx) == [i \in ChartIdx |-> IF i \in idx THEN Duration(gantt_chart[i]) ELSE 0]
SumOver(f) == SeqSum([i \in 1..Cardinality(DOMAIN f) |-> f[i]])
SetMax(S) == CHOOSE x \in S : \A y \in S : y <= x
SetMin(S) == CHOOSE x \in S : \A y \in S : x <= y
Returned == pc = "done"

\* C1: the timeline is chronological and contiguous: every entry has
\* start < end, each entry starts where the previous one ends, and the first
\* entry starts at 0 or at the earliest arrival time.
ChronologicalContiguous ==
    /\ \A i \in ChartIdx : Start(gantt_chart[i]) < End(gantt_chart[i])
    /\ \A i \in ChartIdx \ {Len(gantt_chart)} :
           End(gantt_chart[i]) = Start(gantt_chart[i + 1])
    /\ gantt_chart # <<>> =>
           \/ Start(gantt_chart[1]) = 0
           \/ Start(gantt_chart[1]) = SetMin({proc[r].arrival_time : r \in Refs})

\* a returned timeline with an idle gap in its middle and a preempted process
ChronologicalWitness ==
    /\ Returned
    /\ \E i \in IdleIdx : i > 1
    /\ \E r \in Refs : Cardinality(IdxOf(r)) >= 2

\* C2: conservation. When run returns, the entries' durations sum to the
\* largest completion_time minus the first entry's start, the non-idle
\* durations sum to the sum of the burst times, and each process's own
\* entries sum to its burst_time.
Conservation ==
    Returned =>
        /\ SumOver(Durations(ChartIdx)) =
               SetMax({proc[r].completion_time : r \in Refs}) - Start(gantt_chart[1])
        /\ SumOver(Durations(ChartIdx \ IdleIdx)) =
               SumOver([r \in Refs |-> proc[r].burst_time])
        /\ \A r \in Refs : SumOver(Durations(IdxOf(r))) = proc[r].burst_time

\* a returned run with idle time and a process whose last slice is shorter
\* than the quantum
ConservationWitness ==
    /\ Returned
    /\ IdleIdx # {}
    /\ \E r \in Refs : /\ Cardinality(IdxOf(r)) >= 2
                       /\ proc[r].burst_time % time_quantum # 0

\* C3: metric identity. When run returns, every process has
\* turnaround_time = completion_time - arrival_time,
\* waiting_time = turnaround_time - burst_time,
\* completion_time >= arrival_time and waiting_time >= 0.
MetricIdentity ==
    Returned =>
        \A r \in Refs :
            /\ proc[r].turnaround_time = proc[r].completion_time - proc[r].arrival_time
            /\ proc[r].waiting_time = proc[r].turnaround_time - proc[r].burst_time
            /\ proc[r].completion_time >= proc[r].arrival_time
            /\ proc[r].waiting_time >= 0

\* a returned run in which a process that arrived late also had to wait
MetricIdentityWitness ==
    /\ Returned
    /\ \E r \in Refs : proc[r].arrival_time > 0 /\ proc[r].waiting_time > 0

\* C4: response time bound. When run returns, every process has
\* 0 <= response_time <= waiting_time.
ResponseBound ==
    Returned =>
        \A r \in Refs :
            /\ 0 <= proc[r].response_time
            /\ proc[r].response_time <= proc[r].waiting_time

\* a returned run with an idle gap, two simultaneous arrivals, and a process
\* that waited again after its first dispatch
ResponseBoundWitness ==
    /\ Returned
    /\ IdleIdx # {}
    /\ \E r, q \in Refs : r # q /\ proc[r].arrival_time = proc[q].arrival_time
    /\ \E r \in Refs : 0 < proc[r].response_time
                       /\ proc[r].response_time < proc[r].waiting_time

\* ------------------------------------------------------------- the queue
RefOfLabel(l) == CHOOSE r \in Refs : ProcessLabel(proc[r].pid) = l
LastEntry == gantt_chart[Len(gantt_chart)]
\* the processes still unadmitted when the slice e began that arrive by its end
ArrivedDuring(e) ==
    {q \in Refs : Start(e) < proc[q].arrival_time /\ proc[q].arrival_time <= End(e)}

\* C5: tie-break rule. When a process P ends a quantum at time T with
\* remaining_time > 0 and a process Q not yet admitted has arrival_time <= T,
\* Q is in the ready queue ahead of P, which is re-appended at the tail, and
\* every later dispatch of P comes after a dispatch of Q.
TieBreak ==
    /\ (pc = "loop" /\ gantt_chart # <<>> /\ ~IsIdle(LastEntry)) =>
           LET p == RefOfLabel(Label(LastEntry))
           IN proc[p].remaining_time > 0 =>
                 /\ ready_queue # <<>>
                 /\ ready_queue[Len(ready_queue)] = p
                 /\ \A q \in ArrivedDuring(LastEntry) \ {p} :
                        \E i \in 1..(Len(ready_queue) - 1) : ready_queue[i] = q
    /\ \A i \in ChartIdx \ IdleIdx :
           LET p == RefOfLabel(Label(gantt_chart[i]))
           IN \A q \in ArrivedDuring(gantt_chart[i]) \ {p} :
                 \A k \in IdxOf(p) :
                     k > i => \E j \in IdxOf(q) : i < j /\ j < k

\* P's quantum ends exactly when Q arrives, and Q then runs before P does
TieBreakWitness ==
    \E i, k \in ChartIdx \ IdleIdx :
        /\ i < k
        /\ Label(gantt_chart[i]) = Label(gantt_chart[k])
        /\ \E q \in Refs :
               /\ proc[q].arrival_time = End(gantt_chart[i])
               /\ ~IsOf(gantt_chart[i], q)
               /\ \E j \in IdxOf(q) : i < j /\ j < k

\* ------------------------------------------------------------ the metrics
Metrics == {"response_time", "completion_time", "turnaround_time", "waiting_time"}
AtCompletion == Metrics \ {"response_time"}

\* C6: write-once metrics. Each of the four metrics of every process is
\* assigned at most once, and exactly once by the time run returns;
\* response_time is assigned at the first dispatch of the process and keeps
\* its value; the other three are assigned at the step where remaining_time
\* reaches 0.
WriteOnce ==
    /\ [](\A r \in Refs : \A f \in Metrics : writes[r][f] <= 1)
    /\ [](Returned => \A r \in Refs : \A f \in Metrics : writes[r][f] = 1)
    /\ [][\A r \in Refs :
            /\ (writes[r].response_time # writes'[r].response_time) <=>
                  (/\ IdxOf(r) = {}
                   /\ Len(gantt_chart') > Len(gantt_chart)
                   /\ IsOf(gantt_chart'[Len(gantt_chart')], r))
            /\ proc[r].response_time # -1 =>
                  proc'[r].response_time = proc[r].response_time
            /\ \A f \in AtCompletion :
                  (writes[r][f] # writes'[r][f]) <=>
                     (proc[r].remaining_time > 0 /\ proc'[r].remaining_time = 0)
        ]_vars

\* a returned run in which some process was dispatched three times
WriteOnceWitness ==
    /\ Returned
    /\ \E r \in Refs : Cardinality(IdxOf(r)) >= 3
    /\ \A r \in Refs : \A f \in Metrics : writes[r][f] = 1

\* ------------------------------------------------------------ termination
SumRemaining == SumOver([r \in Refs |-> proc[r].remaining_time])
Iteration == pc = "loop" /\ pc' = "loop"

\* C7: termination. The main loop eventually exits, with the not-completed
\* counter at 0 and every remaining_time equal to 0; every iteration either
\* strictly decreases the sum of the remaining times or strictly advances
\* the clock to the arrival time of a process not yet admitted.
Termination ==
    /\ <>Returned
    /\ [](Returned => /\ remaining_processes = 0
                      /\ \A r \in Refs : proc[r].remaining_time = 0)
    /\ [][Iteration =>
            \/ SumRemaining' < SumRemaining
            \/ /\ SumRemaining' = SumRemaining
               /\ current_time' > current_time
               /\ process_index' < Len(processes)
               /\ current_time' = proc[processes[process_index' + 1]].arrival_time
        ]_vars

\* a returned run that took both kinds of iteration
TerminationWitness ==
    /\ Returned
    /\ remaining_processes = 0
    /\ IdleIdx # {}
    /\ Cardinality(ChartIdx \ IdleIdx) >= 4

Ceil(a, b) == (a + b - 1) \div b

\* C8: step bound. The dispatches number at most the sum over the processes
\* of ceil(burst_time / quantum), and the idle steps number at most the
\* distinct arrival times.
StepBound ==
    /\ Cardinality(ChartIdx \ IdleIdx) <=
           SumOver([r \in Refs |-> Ceil(proc[r].burst_time, time_quantum)])
    /\ Cardinality(IdleIdx) <= Cardinality({proc[r].arrival_time : r \in Refs})

\* a returned run that reaches the dispatch bound with a partial last slice
\* and idles once per arrival gap
StepBoundWitness ==
    /\ Returned
    /\ Cardinality(ChartIdx \ IdleIdx) =
           SumOver([r \in Refs |-> Ceil(proc[r].burst_time, time_quantum)])
    /\ \E r \in Refs : proc[r].burst_time > time_quantum
                       /\ proc[r].burst_time % time_quantum # 0
    /\ Cardinality(IdleIdx) >= 2

\* ----------------------------------------------------- unvalidated input
EmptyInput == processes = <<>>
InvalidInput ==
    \/ ~QuantumOk(time_quantum)
    \/ \E r \in Refs : \/ ~ArrivalOk(proc[r].arrival_time)
                       \/ ~BurstOk(proc[r].burst_time)

InvalidRejected ==
    (InvalidInput /\ ~EmptyInput) =>
        /\ gantt_chart = <<>>
        /\ writes = NoWrites(Len(processes))
        /\ \A r \in Refs : proc[r] = Process(proc[r].pid, proc[r].arrival_time,
                                              proc[r].burst_time)
        /\ ~Returned

\* ------------------------------------------------ the three-process case
\* P0(arrival 0, burst 5), P1(arrival 1, burst 3), P2(arrival 2, burst 1)
ClassicRows == <<<<0, 5>>, <<1, 3>>, <<2, 1>>>>

\* every list of as many processes with times up to the classic ones
ClassicFamily ==
    [1..Len(ClassicRows) -> (0..ClassicArrival) \X (1..ClassicBurst)]

InitClassic ==
    \E rows \in ClassicFamily, quantum \in 1..MaxQuantum : Construct(rows, quantum)

SpecClassic == InitClassic /\ [][Next]_vars

IsClassic ==
    /\ time_quantum = 2
    /\ Len(proc) = Len(ClassicRows)
    /\ \A r \in Refs : /\ proc[r].pid = r - 1
                       /\ proc[r].arrival_time = ClassicRows[r][1]
                       /\ proc[r].burst_time = ClassicRows[r][2]

MetricsOf(r) ==
    <<proc[r].completion_time, proc[r].turnaround_time,
      proc[r].waiting_time, proc[r].response_time>>

\* C12: for P0(0, 5), P1(1, 3), P2(2, 1) and quantum 2, run returns the
\* timeline (P0,0,2) (P1,2,4) (P2,4,5) (P0,5,7) (P1,7,8) (P0,8,9) and sets
\* completion/turnaround/waiting/response to 9/9/4/0 for P0, 8/7/4/1 for P1
\* and 5/3/2/2 for P2.
ClassicCase ==
    (IsClassic /\ Returned) =>
        /\ gantt_chart = << <<"P0", 0, 2>>, <<"P1", 2, 4>>, <<"P2", 4, 5>>,
                            <<"P0", 5, 7>>, <<"P1", 7, 8>>, <<"P0", 8, 9>> >>
        /\ MetricsOf(1) = <<9, 9, 4, 0>>
        /\ MetricsOf(2) = <<8, 7, 4, 1>>
        /\ MetricsOf(3) = <<5, 3, 2, 2>>

\* run has returned on the three-process case
ClassicWitness == IsClassic /\ Returned /\ Len(gantt_chart) = 6

\* ------------------------------------------------------------ FIFO order
IsPrefix(a, b) == Len(a) <= Len(b) /\ SubSeq(b, 1, Len(a)) = a
\* the CPU time r has received in the entries before entry i
WorkBefore(r, i) == SumOver(Durations({j \in IdxOf(r) : j < i}))
\* r was in the ready queue when the process of entry i was re-queued
QueuedAt(r, i) ==
    /\ ~IsOf(gantt_chart[i], r)
    /\ proc[r].arrival_time <= End(gantt_chart[i])
    /\ WorkBefore(r, i) < proc[r].burst_time
\* i and k are consecutive dispatches of r
Consecutive(r, i, k) ==
    /\ i \in IdxOf(r) /\ k \in IdxOf(r) /\ i < k
    /\ \A j \in IdxOf(r) : ~(i < j /\ j < k)

\* C13: ready-queue FIFO order. Every dispatch takes the head of the ready
\* queue and what is left stays in order at the front, appends going to the
\* tail; between two consecutive dispatches of a process P every process
\* that was queued when P was re-queued is dispatched exactly once, no other
\* process is dispatched, and no idle entry occurs.
FifoOrder ==
    /\ [](\A r \in Refs : \A i, k \in ChartIdx :
             Consecutive(r, i, k) =>
                 /\ \A j \in IdleIdx : ~(i < j /\ j < k)
                 /\ \A q \in Refs \ {r} :
                        Cardinality({j \in IdxOf(q) : i < j /\ j < k}) =
                            IF QueuedAt(q, i) THEN 1 ELSE 0)
    /\ [][Len(gantt_chart') > Len(gantt_chart) =>
            LET e == gantt_chart'[Len(gantt_chart')]
            IN IF IsIdle(e)
               THEN ready_queue = <<>> /\ ready_queue' = <<>>
               ELSE IF ready_queue # <<>>
                    THEN /\ IsOf(e, Head(ready_queue))
                         /\ IsPrefix(Tail(ready_queue), ready_queue')
                    ELSE /\ process_index < Len(processes)
                         /\ IsOf(e, processes[process_index + 1])
        ]_vars

\* a process dispatched again after both other processes took their turn
FifoWitness ==
    /\ Returned
    /\ \E r \in Refs : \E i, k \in ChartIdx :
           /\ Consecutive(r, i, k)
           /\ k = i + 3
           /\ Label(gantt_chart[i + 1]) # Label(gantt_chart[i + 2])

\* ---------------------------------------------------------------- slices
InQueue(r) == \E i \in 1..Len(ready_queue) : ready_queue[i] = r

\* C14: quantum-bounded slices. Every dispatch runs the process for
\* min(quantum, its remaining time before the dispatch), so every non-idle
\* entry lasts between 1 and quantum ticks; an entry shorter than the
\* quantum is the last entry of its process; a process with
\* burst_time <= quantum has exactly one entry and is never re-queued.
QuantumSlices ==
    /\ \A i \in ChartIdx \ IdleIdx :
           LET r == RefOfLabel(Label(gantt_chart[i]))
               d == Duration(gantt_chart[i])
               before == proc[r].burst_time - WorkBefore(r, i)
           IN /\ d = (IF time_quantum <= before THEN time_quantum ELSE before)
              /\ 1 <= d /\ d <= time_quantum
              /\ d < time_quantum => \A j \in IdxOf(r) : j <= i
    /\ \A r \in Refs :
           proc[r].burst_time <= time_quantum =>
               /\ Cardinality(IdxOf(r)) <= 1
               /\ Returned => Cardinality(IdxOf(r)) = 1
               /\ IdxOf(r) # {} => ~InQueue(r)

\* a returned run with a process cut off after a full quantum whose last
\* slice is shorter, and a process that fits in one quantum
QuantumSlicesWitness ==
    /\ Returned
    /\ \E r \in Refs : \E i, k \in IdxOf(r) :
           /\ i < k
           /\ Duration(gantt_chart[i]) = time_quantum
           /\ Duration(gantt_chart[k]) < time_quantum
    /\ \E r \in Refs : /\ proc[r].burst_time < time_quantum
                       /\ Cardinality(IdxOf(r)) = 1

\* ----------------------------------------------------------- idle steps
\* the arrival times still ahead of the clock
Pending == {proc[r].arrival_time : r \in {x \in Refs : proc[x].arrival_time > current_time}}

\* C15: idle steps. An idle entry is emitted only when the ready queue is
\* empty, some process is not yet admitted and every process that has
\* arrived is completed; it spans from the clock to the arrival time of the
\* next unadmitted process, which is later than the clock; the entry after
\* an idle entry is a dispatch of a process arriving at the idle entry's
\* end, so no two idle entries are adjacent.
IdleSteps ==
    /\ [](\A i \in IdleIdx :
             /\ Start(gantt_chart[i]) < End(gantt_chart[i])
             /\ i < Len(gantt_chart) =>
                    /\ ~IsIdle(gantt_chart[i + 1])
                    /\ Start(gantt_chart[i + 1]) = End(gantt_chart[i])
                    /\ proc[RefOfLabel(Label(gantt_chart[i + 1]))].arrival_time =
                           End(gantt_chart[i]))
    /\ [][(/\ Len(gantt_chart') > Len(gantt_chart)
           /\ IsIdle(gantt_chart'[Len(gantt_chart')])) =>
            /\ ready_queue = <<>> /\ ready_queue' = <<>>
            /\ process_index' = process_index
            /\ process_index < Len(processes)
            /\ \A r \in Refs : proc[r].arrival_time <= current_time =>
                                  proc[r].remaining_time = 0
            /\ Pending # {}
            /\ proc[processes[process_index + 1]].arrival_time = SetMin(Pending)
            /\ gantt_chart'[Len(gantt_chart')] =
                   <<IdleLabel, current_time, SetMin(Pending)>>
            /\ current_time < SetMin(Pending)
            /\ current_time' = SetMin(Pending)
        ]_vars

\* a returned run that idles for several ticks between two processes
IdleStepsWitness ==
    /\ Returned
    /\ \E i \in IdleIdx : /\ 1 < i /\ i < Len(gantt_chart)
                          /\ Duration(gantt_chart[i]) >= 2

\* ------------------------------------------------------------- no stall
\* the loop is entered with nothing queued and nothing left to admit: the
\* idle branch would read self.processes[len(self.processes)]
Stalled ==
    /\ pc = "loop"
    /\ remaining_processes > 0
    /\ ready_queue = <<>>
    /\ process_index >= Len(processes)

\* C16: no stall. The state with the ready queue empty after admission, no
\* process left to admit and the not-completed counter above 0 is
\* unreachable, so the idle branch never reads past the end of the list.
NoStall == ~Stalled

\* mid-run, the idle branch reads the list inside its bounds
NoStallWitness ==
    /\ pc = "loop"
    /\ remaining_processes > 0
    /\ ready_queue = <<>>
    /\ 0 < process_index /\ process_index < Len(processes)
    /\ ENABLED Idle

\* --------------------------------------------------------- remaining_time
Completed(r) == writes[r].completion_time > 0

\* C17: remaining_time discipline. remaining_time starts at burst_time,
\* never increases, is never negative, changes only in a dispatch of its
\* own process, and is 0 exactly from the step that marks the process
\* completed.
RemainingDiscipline ==
    /\ [](\A r \in Refs :
             /\ 0 <= proc[r].remaining_time
             /\ proc[r].remaining_time <= proc[r].burst_time
             /\ IdxOf(r) = {} => proc[r].remaining_time = proc[r].burst_time
             /\ Completed(r) <=> proc[r].remaining_time = 0)
    /\ [][\A r \in Refs :
            /\ proc'[r].remaining_time <= proc[r].remaining_time
            /\ proc'[r].remaining_time # proc[r].remaining_time =>
                   /\ Len(gantt_chart') > Len(gantt_chart)
                   /\ IsOf(gantt_chart'[Len(gantt_chart')], r)
            /\ (writes'[r].completion_time # writes[r].completion_time) =>
                   /\ proc[r].remaining_time > 0
                   /\ proc'[r].remaining_time = 0
                   /\ remaining_processes' = remaining_processes - 1
        ]_vars

\* one process completed, another cut off with part of its burst left
RemainingWitness ==
    /\ pc = "loop"
    /\ \E r \in Refs : Completed(r) /\ proc[r].remaining_time = 0
    /\ \E r \in Refs : /\ 0 < proc[r].remaining_time
                       /\ proc[r].remaining_time < proc[r].burst_time - 1

\* ------------------------------------------------- metrics and timeline
\* C18: metrics agree with the timeline. When run returns, response_time is
\* the start of the process's first entry minus its arrival_time, and
\* completion_time is the end of its last entry.
MetricsMatchTimeline ==
    Returned =>
        \A r \in Refs :
            /\ IdxOf(r) # {}
            /\ proc[r].response_time =
                   Start(gantt_chart[SetMin(IdxOf(r))]) - proc[r].arrival_time
            /\ proc[r].completion_time = End(gantt_chart[SetMax(IdxOf(r))])

\* a returned run where a process waited for its first slice, ran more than
\* once, and finished before the end of the timeline
MetricsMatchWitness ==
    /\ Returned
    /\ \E r \in Refs : /\ Cardinality(IdxOf(r)) >= 2
                       /\ proc[r].response_time > 0
                       /\ proc[r].completion_time < current_time

\* ------------------------------------------------------------ admission
\* a enters before b: earlier arrival, or the same arrival and earlier in
\* the input list (references follow the input order)
Before(a, b) ==
    \/ proc[a].arrival_time < proc[b].arrival_time
    \/ proc[a].arrival_time = proc[b].arrival_time /\ a < b
Occurrences(r) == Cardinality({i \in 1..Len(ready_queue) : ready_queue[i] = r})
ListIdx == 1..Len(processes)

\* C19: admission order. The processes enter the ready queue for the first
\* time in ascending arrival_time order, equal arrival times in input
\* order; each is admitted once, at a clock value not below its
\* arrival_time, and the admission cursor only moves forward.
AdmissionOrder ==
    /\ [](pc # "start" =>
             /\ {processes[i] : i \in ListIdx} = Refs
             /\ Len(processes) = Cardinality(Refs)
             /\ \A i, j \in ListIdx : i < j => Before(processes[i], processes[j])
             /\ 0 <= process_index /\ process_index <= Len(processes)
             /\ \A i \in ListIdx :
                    IF i <= process_index
                    THEN /\ proc[processes[i]].arrival_time <= current_time
                         /\ Occurrences(processes[i]) <= 1
                    ELSE /\ Occurrences(processes[i]) = 0
                         /\ IdxOf(processes[i]) = {}
             /\ \A r, q \in Refs :
                    (Before(r, q) /\ IdxOf(q) # {}) =>
                        /\ IdxOf(r) # {}
                        /\ SetMin(IdxOf(r)) < SetMin(IdxOf(q)))
    /\ [][pc = "loop" =>
            /\ processes' = processes
            /\ process_index' >= process_index
            /\ \A i \in ListIdx :
                   (process_index < i /\ i <= process_index') =>
                       /\ proc[processes[i]].arrival_time <= current_time'
                       /\ \/ Occurrences(processes[i])' = 1
                          \/ IsOf(gantt_chart'[Len(gantt_chart')], processes[i])
        ]_vars

\* a returned run whose input was out of arrival order and held a tie
AdmissionWitness ==
    /\ Returned
    /\ \E r, q \in Refs : r < q /\ proc[r].arrival_time > proc[q].arrival_time
    /\ \E r, q \in Refs : r < q /\ proc[r].arrival_time = proc[q].arrival_time
    /\ \E i \in ListIdx : processes[i] # i

\* C20: ready-queue well-formedness. The ready queue holds no process
\* twice and only processes that have arrived, have remaining_time > 0 and
\* are not completed; at the top of an iteration, after admission, every
\* arrived and uncompleted process is queued; no process is dispatched
\* before its arrival_time; the counter equals the number of processes with
\* remaining_time > 0.
QueueWellFormed ==
    /\ \A r \in Refs : Occurrences(r) <= 1
    /\ \A r \in Refs :
           InQueue(r) => /\ proc[r].arrival_time <= current_time
                         /\ proc[r].remaining_time > 0
                         /\ ~Completed(r)
    /\ pc = "loop" =>
           LET idx1 == AdmitUpTo(process_index, current_time)
               rq1 == ready_queue \o Admitted(process_index, idx1)
           IN \A r \in Refs :
                 (proc[r].arrival_time <= current_time /\ ~Completed(r)) <=>
                     (\E i \in 1..Len(rq1) : rq1[i] = r)
    /\ \A i \in ChartIdx \ IdleIdx :
           proc[RefOfLabel(Label(gantt_chart[i]))].arrival_time <= Start(gantt_chart[i])
    /\ pc # "start" =>
           remaining_processes =
               Cardinality({r \in Refs : proc[r].remaining_time > 0})

\* two unfinished processes queued after a third has completed
QueueWellFormedWitness ==
    /\ pc = "loop"
    /\ Len(ready_queue) >= 2
    /\ \E r \in Refs : Completed(r)
    /\ \E r \in Refs : InQueue(r) /\ proc[r].remaining_time < proc[r].burst_time

====
